---- MODULE Spec2Model ----
(***************************************************************************)
(* Model of app/agent_cli.py: the command/acknowledgment exchange of       *)
(* ReaperBridge over the two JSON files command.json and ack.json, the     *)
(* ToolRunner handlers that drive it, and the sample lookup of             *)
(* SampleLibrary.  The Lua receiver inside REAPER is the environment: it    *)
(* reads command.json and writes ack.json, one command at a time.          *)
(*                                                                         *)
(* Time is a discrete clock.  The program only ever reads the difference   *)
(* time.time() - t0, so the model carries that difference (waited) and     *)
(* lets it advance in time.sleep alone.                                    *)
(***************************************************************************)
EXTENDS Integers, Sequences, FiniteSets, TLC

\* ------------------------------------------------------------------ bounds
\* ReaperBridge.timeout_s and poll_s, in clock ticks (3.0 s and 0.05 s in
\* the source: scaled down, the timeout no multiple of the poll interval).
timeout_s == 3
poll_s == 2
\* The largest bar count a tool call asks for.
MaxBars == 1
\* The number of ToolRunner.run invocations in one behaviour.
MaxRuns == 2
\* The number of uuids drawn (commands written) in one behaviour: a whole
\* add_basic_beat run of MaxBars bars, and one command more.
MaxCmds == 2 + 12 * MaxBars

\* Seconds are counted in 1/SecScale of a second.
SecScale == 4

\* ------------------------------------------------------------- JSON values
\* A JSON object is a function from keys to values; {} is the empty one.
EmptyMap == [k \in {} |-> 0]

\* dict.get(key) on a key that is absent gives None: for "id", a value no
\* uuid equals.
NoId == 0

\* ack.get("id")
GetId(obj) == IF "id" \in DOMAIN obj THEN obj["id"] ELSE NoId

\* a.get("message")
GetMessage(obj) == IF "message" \in DOMAIN obj THEN obj["message"] ELSE "None"

\* the truth value of a.get("ok")
GetOk(obj) == IF "ok" \in DOMAIN obj THEN obj["ok"] = TRUE ELSE FALSE

\* What a file holds: nothing (no file), blank text, text that is no JSON
\* (a partial write), or the text of a JSON object.
Missing == [kind |-> "missing"]
Blank == [kind |-> "blank"]
Malformed == [kind |-> "malformed"]
Json(obj) == [kind |-> "json", obj |-> obj]

\* read_json: {} for a missing file, blank text or malformed JSON.
read_json(file) == IF file.kind = "json" THEN file.obj ELSE EmptyMap

\* write_json / write_text of a JSON object
write_json(payload) == Json(payload)

\* ------------------------------------------------------------ sample files
\* A file name is a sequence of tokens, the last one its suffix.
LowerTok(t) ==
  CASE t = "K" -> "k"
    [] t = ".WAV" -> ".wav"
    [] OTHER -> t

\* str.lower
Lower(s) == [i \in 1..Len(s) |-> LowerTok(s[i])]

RECURSIVE StripLeft(_)
StripLeft(s) == IF s # <<>> /\ Head(s) = " " THEN StripLeft(Tail(s)) ELSE s

RECURSIVE StripRight(_)
StripRight(s) ==
  IF s # <<>> /\ s[Len(s)] = " " THEN StripRight(SubSeq(s, 1, Len(s) - 1)) ELSE s

\* str.strip
Strip(s) == StripRight(StripLeft(s))

ContainsAny(name, q) == \E i \in 1..Len(name), j \in 1..Len(q) : name[i] = q[j]

\* q in name
Contains(name, q) ==
  \E i \in 1..(Len(name) - Len(q) + 1) : SubSeq(name, i, i + Len(q) - 1) = q

\* _AUDIO_EXTS (.mp3, .aif and .aiff name no file of the catalogs below)
AUDIO_EXTS == {".wav", ".mp3", ".aif", ".aiff"}

\* p.suffix
Suffix(name) == IF name # <<>> THEN name[Len(name)] ELSE ""

\* The categories "all" expands to, in order.
AllCats == <<"kicks", "claps", "hats", "misc">>

File(name) == [name |-> name, is_file |-> TRUE]
Dir(name) == [name |-> name, is_file |-> FALSE]
Folder(entries) == [exists |-> TRUE, entries |-> entries]
NoFolder == [exists |-> FALSE, entries |-> <<>>]

\* The sounds directories a behaviour starts from (glob order is the order
\* of the entries).
FullSounds ==
  [kicks |-> Folder(<<Dir(<<"k">>), File(<<"K", "i", ".WAV">>),
                      File(<<"k", ".txt">>), File(<<"k", "k", ".wav">>)>>),
   claps |-> Folder(<<File(<<"c", ".wav">>)>>),
   hats |-> Folder(<<File(<<"h", "i", ".wav">>), File(<<"h", ".wav">>)>>),
   misc |-> NoFolder]

NoClapsSounds == [FullSounds EXCEPT !.claps = NoFolder]

NoHatsSounds ==
  [FullSounds EXCEPT !.hats = Folder(<<File(<<"h", ".txt">>), Dir(<<"h", ".wav">>)>>)]

\* args["query"] of list_samples
Queries == {<<>>, <<"K", "K">>, <<" ", "i", " ">>, <<"i", "k">>}
\* args["kick_query"], args["hat_query"], args["clap_query"]
BeatQueries == {<<>>, <<" ", "K", "K", " ">>}

\* The sample dict of one file.
Sample(cat, name) == [category |-> cat, name |-> name, path |-> <<cat>> \o name]

\* No sample: None.
None == [none |-> TRUE]

\* The inner loop of list_samples over one folder's entries, from entry i:
\* the results so far and whether the limit made the function return.
RECURSIVE ScanFolder(_, _, _, _, _, _)
ScanFolder(cat, entries, i, q, limit, results) ==
  IF i > Len(entries) THEN [results |-> results, returned |-> FALSE]
  ELSE LET p == entries[i] IN
    IF ~p.is_file THEN ScanFolder(cat, entries, i + 1, q, limit, results)
    ELSE IF LowerTok(Suffix(p.name)) \notin AUDIO_EXTS
      THEN ScanFolder(cat, entries, i + 1, q, limit, results)
    ELSE IF q # <<>> /\ ~Contains(Lower(p.name), q)
      THEN ScanFolder(cat, entries, i + 1, q, limit, results)
    ELSE LET r == Append(results, Sample(cat, p.name)) IN
      IF Len(r) >= limit THEN [results |-> r, returned |-> TRUE]
      ELSE ScanFolder(cat, entries, i + 1, q, limit, r)

\* The outer loop of list_samples over the categories, from category c.
RECURSIVE ScanCats(_, _, _, _, _, _)
ScanCats(dir, cats, c, q, limit, results) ==
  IF c > Len(cats) THEN results
  ELSE LET folder == IF cats[c] \in DOMAIN dir THEN dir[cats[c]] ELSE NoFolder IN
    IF ~folder.exists THEN ScanCats(dir, cats, c + 1, q, limit, results)
    ELSE LET s == ScanFolder(cats[c], folder.entries, 1, q, limit, results) IN
      IF s.returned THEN s.results
      ELSE ScanCats(dir, cats, c + 1, q, limit, s.results)

\* SampleLibrary.list_samples
list_samples(dir, category, query, limit) ==
  LET q == Strip(Lower(query))
      cats == IF category = "all" THEN AllCats ELSE <<category>>
  IN ScanCats(dir, cats, 1, q, limit, <<>>)

\* SampleLibrary.pick_first
pick_first(dir, category, query) ==
  LET matches == list_samples(dir, category, query, 1)
  IN IF matches # <<>> THEN matches[1] ELSE None

\* pick_first(cat, query) or pick_first(cat, "")
Resolve(dir, category, query) ==
  LET first == pick_first(dir, category, query)
  IN IF first # None THEN first ELSE pick_first(dir, category, <<>>)

\* ------------------------------------------------------------------- state
VARIABLES
  sounds,     \* the sounds directory (never written by the program)
  cmd_file,   \* command.json
  ack_file,   \* ack.json
  pc,         \* where the program's one thread is
  call,       \* the locals of the running ToolRunner handler
  req,        \* dispatch's cmd_type and kwargs
  cmd_id,     \* dispatch's cmd_id
  waited,     \* time.time() - t0 in _wait_for_ack
  ack,        \* the ack variable of _wait_for_ack / dispatch
  next_uuid,  \* the uuids drawn so far, plus one
  result,     \* what ToolRunner.run returned last
  runs,       \* the ToolRunner.run invocations so far
  rcv_cmd,    \* receiver: the id of the command it is executing, or NoId
  rcv_last,   \* receiver: the id of the last command it took
  log,        \* history: the commands written in the current run
  rets,       \* history: dispatch's returns in the current run
  ret,        \* history: dispatch's last return
  seen,       \* history: a poll of the current wait read the awaited id
  gained,     \* history: <<the clock when the awaited ack was written>>
  tool        \* history: the tool name of the current run

vars == <<sounds, cmd_file, ack_file, pc, call, req, cmd_id, waited, ack,
          next_uuid, result, runs, rcv_cmd, rcv_last, log, rets, ret, seen,
          gained, tool>>

bridge_vars == <<pc, call, req, cmd_id, waited, ack, next_uuid, result, runs>>
hist_vars == <<log, rets, ret, seen, gained, tool>>

NoCall == [tool |-> "none"]
NoReq == [type |-> "none"]
NoResult == [none |-> TRUE]
NoRet == [how |-> "none"]

\* An acknowledgment a previous process left in ack.json.
StaleAck == [id |-> NoId - 1, ok |-> TRUE, message |-> "done"]

\* The sounds directory and ack.json a behaviour starts from.
Starts ==
  {<<FullSounds, Missing>>, <<FullSounds, Json(StaleAck)>>,
   <<NoClapsSounds, Blank>>, <<NoHatsSounds, Json(EmptyMap)>>}

Init ==
  /\ \E start \in Starts : sounds = start[1] /\ ack_file = start[2]
  /\ cmd_file = Missing
  /\ pc = "idle"
  /\ call = NoCall
  /\ req = NoReq
  /\ cmd_id = NoId
  /\ waited = 0
  /\ ack = EmptyMap
  /\ next_uuid = 1
  /\ result = NoResult
  /\ runs = 0
  /\ rcv_cmd = NoId
  /\ rcv_last = NoId
  /\ log = <<>>
  /\ rets = <<>>
  /\ ret = NoRet
  /\ seen = FALSE
  /\ gained = <<>>
  /\ tool = "none"

\* ------------------------------------------------------------ ReaperBridge
\* {"id": cmd_id, "type": cmd_type, **kwargs}
Payload(id, r) == [k \in DOMAIN r \cup {"id"} |-> IF k = "id" THEN id ELSE r[k]]

\* dispatch hands the written command to _wait_for_ack and blocks in it.
AfterWriteNoWait == "return"
AfterWrite == "wait"

\* dispatch, up to the call of _wait_for_ack: a fresh uuid, the command
\* written over command.json, t0 taken.
DispatchWrite ==
  /\ pc = "dispatch"
  /\ cmd_id' = next_uuid
  /\ next_uuid' = next_uuid + 1
  /\ cmd_file' = write_json(Payload(next_uuid, req))
  /\ waited' = 0
  /\ pc' = AfterWrite
  /\ log' = Append(log, Payload(next_uuid, req))
  /\ seen' = FALSE
  /\ gained' = <<>>
  /\ UNCHANGED <<sounds, ack_file, call, req, ack, result, runs, rcv_cmd,
                 rcv_last, rets, ret, tool>>

\* while time.time() - t0 < self.timeout_s
LoopCondLate(w) == w < timeout_s + 2 * poll_s
LoopCond(w) == w < timeout_s

\* ack.get("id") == cmd_id
AckMatchesAny(a, id) == "id" \in DOMAIN a
AckMatchesOk(a, id) == GetId(a) = id /\ GetOk(a)
AckMatchesDefault(a, id) == IF "id" \in DOMAIN a THEN a["id"] = id ELSE TRUE
AckMatches(a, id) == GetId(a) = id

MatchedFields(a) ==
  [id |-> GetId(a), ok |-> GetOk(a), message |-> GetMessage(a)]

\* return ack: the mapping that was read
Matched(a) == a

\* What ack.json holds after the matched ack was consumed.
ConsumedKeep(file) == file
Consumed(file) == Json(EmptyMap)

TimedOutReset(file) == Json(EmptyMap)

\* What ack.json holds after the loop ended without a match: what it held.
TimedOut(file) == file

\* {"id": cmd_id, "ok": False, "message": "ack timeout"}
TimeoutAck(id) == [id |-> id, ok |-> FALSE, message |-> "ack timeout"]

\* ack.json holds an acknowledgment of the command with this id.
HoldsAckOf(file, id) ==
  /\ file.kind = "json"
  /\ "id" \in DOMAIN file.obj
  /\ file.obj["id"] = id

\* The history entry of a return of dispatch.
Returned(how) == [id |-> cmd_id, how |-> how, ack |-> ack']

\* One pass of the loop of _wait_for_ack up to the match test: the ack
\* file is read; a match leaves the loop, anything else goes to sleep.
WaitPoll ==
  /\ pc = "wait"
  /\ LoopCond(waited)
  /\ LET a == read_json(ack_file) IN
       IF AckMatches(a, cmd_id)
       THEN pc' = "clear" /\ ack' = Matched(a)
       ELSE pc' = "sleep" /\ ack' = ack
  /\ seen' = (seen \/ HoldsAckOf(ack_file, cmd_id))
  /\ UNCHANGED <<sounds, cmd_file, ack_file, call, req, cmd_id, waited,
                 next_uuid, result, runs, rcv_cmd, rcv_last, log, rets, ret,
                 gained, tool>>

\* The matched ack is consumed: ack.json is reset and the ack returned.
WaitClear ==
  /\ pc = "clear"
  /\ ack_file' = Consumed(ack_file)
  /\ pc' = "return"
  /\ ack' = ack
  /\ seen' = seen
  /\ ret' = Returned("match") @@ [waited |-> waited, seen |-> seen]
  /\ rets' = Append(rets, Returned("match"))
  /\ UNCHANGED <<sounds, cmd_file, call, req, cmd_id, waited, next_uuid,
                 result, runs, rcv_cmd, rcv_last, log, gained, tool>>

\* time.sleep(self.poll_s)
WaitSleep ==
  /\ pc = "sleep"
  /\ waited' = waited + poll_s
  /\ pc' = "wait"
  /\ UNCHANGED <<sounds, cmd_file, ack_file, call, req, cmd_id, ack,
                 next_uuid, result, runs, rcv_cmd, rcv_last, log, rets, ret,
                 seen, gained, tool>>

\* The loop condition fails: the synthetic acknowledgment is returned.
WaitTimeout ==
  /\ pc = "wait"
  /\ ~LoopCond(waited)
  /\ ack' = TimeoutAck(cmd_id)
  /\ pc' = "return"
  /\ seen' = seen
  /\ ret' = Returned("timeout") @@ [waited |-> waited, seen |-> seen]
  /\ rets' = Append(rets, Returned("timeout"))
  /\ ack_file' = TimedOut(ack_file)
  /\ UNCHANGED <<sounds, cmd_file, call, req, cmd_id, waited, next_uuid,
                 result, runs, rcv_cmd, rcv_last, log, gained, tool>>

\* -------------------------------------------------------------- ToolRunner
\* extract_bpm found no tempo in the user's text: None.
NoBpm == -1

\* What extract_bpm finds in the user's text ("00 bpm" gives 0.0).
UserBpms == {NoBpm, 0, 80}
\* args["bpm"], args["track"], args["index"], args["bars"]
ArgBpms == {0, 120}
Tracks == {0}
Indexes == {0}
Bars == {-1, 0, MaxBars}
\* args["bars"] of a behaviour that is one run of add_basic_beat
PlanBars == {-1, 0, MaxBars + 1}
\* The commands a whole run of add_basic_beat writes: set_tempo, and a
\* set_cursor and an insert_sample for each of the 6 hits of a bar.
Commands(bars) == 1 + 12 * (IF bars > 0 THEN bars ELSE 0)
\* Tool names the model's caller asks for beside the five handlers.
OtherTools == {"play"}
\* args["category"] and args["limit"] of list_samples
Categories == {"all", "kicks", "hats", "misc", "vox"}
MaxLimit == 2

Fail(what, a) == [ok |-> FALSE, message |-> <<what, GetMessage(a)>>]

\* beats_to_seconds, in 1/SecScale s: (60.0 / bpm) * beats.  Only called
\* with bpm # 0 here; the division by zero is the caller's raised branch.
beats_to_seconds_half(beats, bpm) == ((30 * SecScale) \div bpm) * beats
beats_to_seconds(beats, bpm) == ((60 * SecScale) \div bpm) * beats

\* The hits of one bar: kick, clap, then the four hats.
BarHitsSorted(bar, kick, clap, hat) ==
  <<[kind |-> "kick", path |-> kick.path, beat |-> bar * 4 + 0],
    [kind |-> "hat", path |-> hat.path, beat |-> bar * 4 + 0],
    [kind |-> "hat", path |-> hat.path, beat |-> bar * 4 + 1],
    [kind |-> "clap", path |-> clap.path, beat |-> bar * 4 + 2],
    [kind |-> "hat", path |-> hat.path, beat |-> bar * 4 + 2],
    [kind |-> "hat", path |-> hat.path, beat |-> bar * 4 + 3]>>
BarHits(bar, kick, clap, hat) ==
  <<[kind |-> "kick", path |-> kick.path, beat |-> bar * 4 + 0],
    [kind |-> "clap", path |-> clap.path, beat |-> bar * 4 + 2],
    [kind |-> "hat", path |-> hat.path, beat |-> bar * 4 + 0],
    [kind |-> "hat", path |-> hat.path, beat |-> bar * 4 + 1],
    [kind |-> "hat", path |-> hat.path, beat |-> bar * 4 + 2],
    [kind |-> "hat", path |-> hat.path, beat |-> bar * 4 + 3]>>

\* The hit list: for bar in range(bars).
RECURSIVE BuildHits(_, _, _, _, _)
BuildHits(bar, bars, kick, clap, hat) ==
  IF bar >= bars THEN <<>>
  ELSE BarHits(bar, kick, clap, hat) \o BuildHits(bar + 1, bars, kick, clap, hat)

\* not kick or not hat or not clap
MissingKickOnly(kick, hat, clap) == kick = None
MissingSamples(kick, hat, clap) == kick = None \/ hat = None \/ clap = None

\* not a.get("ok"), after set_tempo, set_cursor and insert_sample
TempoNotOkNever(a) == FALSE
TempoNotOk(a) == ~GetOk(a)
CursorNotOkNever(a) == FALSE
CursorNotOk(a) == ~GetOk(a)
InsertNotOkNever(a) == FALSE
InsertNotOk(a) == ~GetOk(a)

\* The handler has returned: ToolRunner.run returns r.
Finish(r) ==
  /\ result' = r
  /\ pc' = "idle"
  /\ call' = NoCall
  /\ req' = NoReq
  /\ cmd_id' = NoId
  /\ waited' = 0
  /\ ack' = EmptyMap

\* The handler calls bridge.dispatch(type, **kwargs).
Call(c, r) ==
  /\ call' = c
  /\ req' = r
  /\ pc' = "dispatch"
  /\ cmd_id' = NoId
  /\ waited' = 0
  /\ ack' = EmptyMap
  /\ result' = NoResult

\* ToolRunner.run starts: the histories of the run are empty.  A run is
\* started when the uuids left of the budget suffice for the cmds commands
\* it may write.
EnterWithin(name, cmds, budget) ==
  /\ pc = "idle"
  /\ runs < MaxRuns
  /\ next_uuid + cmds <= budget + 1
  /\ runs' = runs + 1
  /\ tool' = name
  /\ log' = <<>>
  /\ rets' = <<>>
  /\ UNCHANGED <<sounds, cmd_file, ack_file, next_uuid, rcv_cmd, rcv_last,
                 ret, seen, gained>>

\* the names self.handlers has a handler for
Handlers ==
  {"list_samples", "insert_track", "remove_track", "set_tempo",
   "add_basic_beat"}

UnknownToolOk(name) == [ok |-> TRUE, message |-> <<"Unknown tool", name>>]

\* what run returns for a name without a handler
UnknownTool(name) == [ok |-> FALSE, message |-> <<"Unknown tool", name>>]

Enter(name, cmds) == EnterWithin(name, cmds, MaxCmds)

\* run with a tool name that has no handler
RunUnknown ==
  \E name \in OtherTools \ Handlers :
    /\ Enter(name, 0)
    /\ Finish(UnknownTool(name))

\* what _list_samples returns
ListSamplesResult(dir, category, query, limit) ==
  LET found == list_samples(dir, category, query, limit)
  IN [ok |-> TRUE, count |-> Len(found), samples |-> found]

\* _list_samples
RunListSamples ==
  /\ Enter("list_samples", 0)
  /\ \E category \in Categories, query \in Queries, limit \in 0..MaxLimit :
       Finish(ListSamplesResult(sounds, category, query, limit))

\* _list_samples, with the arguments of the lookup kept in call after the
\* return, as a history of what was asked.
LookupRun ==
  /\ Enter("list_samples", 0)
  /\ \E category \in Categories, query \in Queries, limit \in 0..MaxLimit :
       /\ result' = ListSamplesResult(sounds, category, query, limit)
       /\ call' = [tool |-> "list_samples", category |-> category,
                   query |-> query, limit |-> limit]
  /\ pc' = "idle"
  /\ req' = NoReq
  /\ cmd_id' = NoId
  /\ waited' = 0
  /\ ack' = EmptyMap

\* _insert_track and _remove_track
RunTrack ==
  \E name \in {"insert_track", "remove_track"}, index \in Indexes :
    /\ Enter(name, 1)
    /\ Call([tool |-> name], [type |-> name, index |-> index])

\* _set_tempo
RunSetTempo ==
  /\ Enter("set_tempo", 1)
  /\ \E user \in UserBpms \ {0}, arg \in ArgBpms \ {0} :
       LET bpm == IF user = NoBpm THEN arg ELSE user
       IN Call([tool |-> "set_tempo"], [type |-> "set_tempo", bpm |-> bpm])

\* _add_basic_beat and _add_basic_beat_impl up to the set_tempo dispatch
BeatRun(counts, budget) ==
  /\ pc = "idle"
  /\ \E user \in UserBpms, arg \in ArgBpms, track \in Tracks, bars \in counts,
        kick_query \in BeatQueries, hat_query \in BeatQueries,
        clap_query \in BeatQueries :
     /\ EnterWithin("add_basic_beat", Commands(bars), budget)
     /\
       LET bpm == IF user # NoBpm /\ user # 0 THEN user ELSE arg
           kick == Resolve(sounds, "kicks", kick_query)
           hat == Resolve(sounds, "hats", hat_query)
           clap == Resolve(sounds, "claps", clap_query)
       IN IF MissingSamples(kick, hat, clap)
          THEN Finish([ok |-> FALSE, message |-> <<"Missing samples">>])
          ELSE Call([tool |-> "add_basic_beat", stage |-> "tempo", bpm |-> bpm,
                     track |-> track, bars |-> bars, kick |-> kick, hat |-> hat,
                     clap |-> clap, hits |-> <<>>, i |-> 0],
                    [type |-> "set_tempo", bpm |-> bpm])

RunBeat == BeatRun(Bars, MaxCmds)

\* _add_basic_beat as the one run of a behaviour, with a bar more.
PlanRun == runs = 0 /\ BeatRun(PlanBars, Commands(MaxBars + 1))

\* What a return of dispatch to its caller leaves alone; of the last
\* return the histories keep how it ended.
Resume ==
  /\ ret' = [how |-> ret.how]
  /\ seen' = FALSE
  /\ gained' = <<>>
  /\ UNCHANGED <<sounds, cmd_file, ack_file, next_uuid, runs, rcv_cmd,
                 rcv_last, log, rets, tool>>

\* dispatch returns to _insert_track, _remove_track or _set_tempo, which
\* return the acknowledgment.
ReturnSimple ==
  /\ pc = "return"
  /\ call.tool \in {"insert_track", "remove_track", "set_tempo"}
  /\ Finish(ack)
  /\ Resume

\* The body of the hit loop up to the set_cursor dispatch, for hit i of
\* hits: beats_to_seconds raises ZeroDivisionError when bpm is 0, which
\* nothing catches.
StartHit(c, hits, i) ==
  IF c.bpm = 0
  THEN /\ pc' = "raised"
       /\ call' = [c EXCEPT !.hits = hits, !.i = i]
       /\ UNCHANGED <<req, cmd_id, waited, ack, result>>
  ELSE Call([c EXCEPT !.stage = "cursor", !.hits = hits, !.i = i],
            [type |-> "set_cursor",
             seconds |-> beats_to_seconds(hits[i].beat, c.bpm)])

AddedBars(c, hits) ==
  [ok |-> TRUE, message |-> <<"Added", c.bars, c.bpm, c.track>>,
   used |-> [kick |-> c.kick.name, clap |-> c.clap.name, hat |-> c.hat.name],
   hits |-> c.bars]

\* The result of a run whose hits were all inserted.
Added(c, hits) ==
  [ok |-> TRUE, message |-> <<"Added", c.bars, c.bpm, c.track>>,
   used |-> [kick |-> c.kick.name, clap |-> c.clap.name, hat |-> c.hat.name],
   hits |-> Len(hits)]

\* The set_tempo dispatch of _add_basic_beat_impl returns: the hit list is
\* built and the loop entered.
ReturnTempo ==
  /\ pc = "return"
  /\ call.tool = "add_basic_beat"
  /\ call.stage = "tempo"
  /\ IF TempoNotOk(ack) THEN Finish(Fail("Failed setting tempo", ack))
     ELSE LET hits == BuildHits(0, call.bars, call.kick, call.clap, call.hat) IN
       IF hits = <<>> THEN Finish(Added(call, hits))
       ELSE StartHit(call, hits, 1)
  /\ Resume

\* The set_cursor dispatch of a hit returns.
ReturnCursor ==
  /\ pc = "return"
  /\ call.tool = "add_basic_beat"
  /\ call.stage = "cursor"
  /\ IF CursorNotOk(ack) THEN Finish(Fail("Failed set_cursor", ack))
     ELSE Call([call EXCEPT !.stage = "insert"],
               [type |-> "insert_sample", path |-> call.hits[call.i].path,
                track |-> call.track])
  /\ Resume

\* The insert_sample dispatch of a hit returns: the next hit, or the end.
ReturnInsert ==
  /\ pc = "return"
  /\ call.tool = "add_basic_beat"
  /\ call.stage = "insert"
  /\ IF InsertNotOk(ack) THEN Finish(Fail("Failed insert_sample", ack))
     ELSE IF call.i < Len(call.hits) THEN StartHit(call, call.hits, call.i + 1)
     ELSE Finish(Added(call, call.hits))
  /\ Resume

\* ---------------------------------------------------------------- receiver
\* The receiver takes the command in command.json, once per command.
RcvTake ==
  /\ rcv_cmd = NoId
  /\ cmd_file.kind = "json"
  /\ GetId(cmd_file.obj) # rcv_last
  /\ rcv_cmd' = GetId(cmd_file.obj)
  /\ rcv_last' = GetId(cmd_file.obj)
  /\ UNCHANGED <<sounds, cmd_file, ack_file, bridge_vars, hist_vars>>

\* The receiver is in the middle of writing ack.json.
RcvPartial ==
  /\ rcv_cmd # NoId
  /\ ack_file # Malformed
  /\ ack_file' = Malformed
  /\ UNCHANGED <<sounds, cmd_file, bridge_vars, rcv_cmd, rcv_last, hist_vars>>

\* The acknowledgments the receiver writes for a command: done, or failed
\* with a detail field next to the message.
Acks(id) ==
  {[id |-> id, ok |-> TRUE, message |-> "done"],
   [id |-> id, ok |-> FALSE, message |-> "failed", detail |-> "no track"]}

\* The receiver acknowledges the command it executed.
RcvAck ==
  /\ rcv_cmd # NoId
  /\ \E a \in Acks(rcv_cmd) : ack_file' = Json(a)
  /\ rcv_cmd' = NoId
  /\ gained' = IF rcv_cmd = cmd_id /\ pc \in {"wait", "sleep"}
               THEN <<waited>> ELSE gained
  /\ UNCHANGED <<sounds, cmd_file, bridge_vars, rcv_last, log, rets, ret, seen,
                 tool>>

Next ==
  \/ RunUnknown
  \/ RunListSamples
  \/ RunTrack
  \/ RunSetTempo
  \/ RunBeat
  \/ DispatchWrite
  \/ WaitPoll
  \/ WaitClear
  \/ WaitSleep
  \/ WaitTimeout
  \/ ReturnSimple
  \/ ReturnTempo
  \/ ReturnCursor
  \/ ReturnInsert
  \/ RcvTake
  \/ RcvPartial
  \/ RcvAck

Spec == Init /\ [][Next]_vars

\* The lookups, with their arguments kept, between runs that dispatch one
\* command.
NextCatalog ==
  \/ LookupRun
  \/ RunTrack
  \/ DispatchWrite
  \/ WaitPoll
  \/ WaitClear
  \/ WaitSleep
  \/ WaitTimeout
  \/ ReturnSimple
  \/ RcvTake
  \/ RcvPartial
  \/ RcvAck

SpecCatalog == Init /\ [][NextCatalog]_vars

\* One run of add_basic_beat.
NextPlan ==
  \/ PlanRun
  \/ DispatchWrite
  \/ WaitPoll
  \/ WaitClear
  \/ WaitSleep
  \/ WaitTimeout
  \/ ReturnTempo
  \/ ReturnCursor
  \/ ReturnInsert
  \/ RcvTake
  \/ RcvPartial
  \/ RcvAck

SpecPlan == Init /\ [][NextPlan]_vars

\* ------------------------------------------------------------------ claims
Waiting == pc \in {"wait", "sleep", "clear"}

\* ack.json holds an acknowledgment of an earlier command of this process.
HoldsStaleAck ==
  /\ ack_file.kind = "json"
  /\ "id" \in DOMAIN ack_file.obj
  /\ ack_file.obj["id"] \in 1..(cmd_id - 1)

\* C1: whatever ack.json held while dispatch polled, the value dispatch
\* returns carries the id of the command this dispatch wrote: it is the
\* acknowledgment of that id read from ack.json, or the synthetic timeout
\* acknowledgment of that id.
C1_ReturnsOwnId ==
  /\ pc = "clear" => ack_file = Json(ack) /\ ack["id"] = cmd_id
  /\ pc = "return" =>
       /\ "id" \in DOMAIN ack /\ ack["id"] = cmd_id
       /\ ret.id = cmd_id /\ ret.ack = ack
       /\ ret.how = "timeout" =>
            ack = [id |-> cmd_id, ok |-> FALSE, message |-> "ack timeout"]
  /\ \A i \in 1..Len(rets) :
       /\ i <= Len(log)
       /\ rets[i].id = log[i]["id"]
       /\ rets[i].ack["id"] = log[i]["id"]

\* C1 witness: a dispatch of a later run returns the timeout while the
\* acknowledgment of an earlier, timed-out command sits in ack.json.
C1_Witness ==
  /\ pc = "return"
  /\ ret.how = "timeout"
  /\ HoldsStaleAck

\* C2: from the return of a dispatch that matched its acknowledgment until
\* the next write of command.json, ack.json holds the empty mapping.
C2_EmptyAfterMatch ==
  (ret.how = "match" /\ ~Waiting) => ack_file = Json(EmptyMap)

\* C2 witness: a matched dispatch has returned to the caller of run, the
\* receiver being done with its command.
C2_Witness ==
  /\ pc = "idle"
  /\ ret.how = "match"
  /\ Len(rets) = 1
  /\ rcv_cmd = NoId
  /\ rcv_last = rets[1].id

\* C3: a wait during which ack.json never gained the awaited
\* acknowledgment ends with the synthetic timeout acknowledgment, no later
\* than timeout_s + poll_s after it began; no wait lasts longer.
C3_TimeoutBound ==
  /\ Waiting => waited < timeout_s + poll_s
  /\ (pc = "return" /\ gained = <<>>) =>
       /\ ret.how = "timeout"
       /\ ack = [id |-> cmd_id, ok |-> FALSE, message |-> "ack timeout"]
       /\ waited >= timeout_s
       /\ waited <= timeout_s + poll_s

\* C3 witness: dispatch has returned the timeout with nothing but a
\* partial write in ack.json.
C3_Witness ==
  /\ pc = "return"
  /\ ret.how = "timeout"
  /\ gained = <<>>
  /\ ack_file = Malformed

\* C4 as stated: the timeout is returned only when the awaited
\* acknowledgment was never in ack.json within the timeout window.
C4_Original ==
  (pc = "return" /\ ret.how = "timeout") =>
    ~(gained # <<>> /\ gained[1] < timeout_s)

\* C4 amended: the timeout is returned only when no poll of the wait read
\* the awaited acknowledgment; an acknowledgment the receiver writes more
\* than one poll interval before the timeout elapses is read by a poll, and
\* an acknowledgment a poll reads is returned and ack.json cleared.
C4_TimeoutOnlyIfNoPollMatched ==
  pc = "return" =>
    /\ ret.how = "timeout" =>
         /\ ~ret.seen
         /\ ~(gained # <<>> /\ gained[1] + poll_s < timeout_s)
    /\ ret.seen =>
         /\ ret.how = "match"
         /\ gained # <<>>
         /\ ack["id"] = cmd_id
         /\ ack_file = Json(EmptyMap)

\* C4 witness: the awaited acknowledgment was written within the window,
\* after the last poll, and dispatch returned the timeout.
C4_Witness ==
  /\ pc = "return"
  /\ ret.how = "timeout"
  /\ gained # <<>>
  /\ gained[1] < timeout_s
  /\ HoldsAckOf(ack_file, cmd_id)

Beat == tool = "add_basic_beat"

\* The acknowledgment dispatch returned for the i-th command of the run
\* was ok.
RetOk(i) == "ok" \in DOMAIN rets[i].ack /\ rets[i].ack["ok"] = TRUE

\* The commands of the given type among the first n of the run.
Written(type, n) == {i \in 1..n : log[i]["type"] = type}

\* C5: in a run of add_basic_beat whose set_tempo acknowledgment is not ok
\* (a failure the receiver reports, or the timeout), set_tempo stays the
\* only command written and the run returns an ok: false result.
C5_TempoFailureStops ==
  (Beat /\ Len(rets) >= 1 /\ ~RetOk(1)) =>
    /\ Len(log) = 1
    /\ log[1]["type"] = "set_tempo"
    /\ Written("set_cursor", Len(log)) = {}
    /\ Written("insert_sample", Len(log)) = {}
    /\ pc \in {"return", "idle"}
    /\ pc = "idle" =>
         /\ result.ok = FALSE
         /\ result.message = <<"Failed setting tempo", rets[1].ack["message"]>>

\* C5 witness: the receiver answered set_tempo with ok: false and the run
\* has returned.
C5_Witness ==
  /\ Beat
  /\ pc = "idle"
  /\ Len(rets) = 1
  /\ rets[1].how = "match"
  /\ ~RetOk(1)
  /\ cmd_file = Json(log[1])

\* The folder of a category holds no audio file at all.
NoAudio(cat) ==
  \/ ~sounds[cat].exists
  \/ \A i \in 1..Len(sounds[cat].entries) :
       LET p == sounds[cat].entries[i] IN
         \/ ~p.is_file
         \/ p.name[Len(p.name)] \notin {".wav", ".WAV"}

\* C6: a run of add_basic_beat with a percussion category that has no
\* sample returns at once an ok: false result and writes neither
\* command.json nor ack.json (no uuid is drawn, nothing is dispatched).
C6_MissingSamplesNoDispatch ==
  [][(/\ runs' = runs + 1
      /\ tool' = "add_basic_beat"
      /\ \E cat \in {"kicks", "hats", "claps"} : NoAudio(cat))
     => /\ cmd_file' = cmd_file
        /\ ack_file' = ack_file
        /\ next_uuid' = next_uuid
        /\ log' = <<>>
        /\ pc' = "idle"
        /\ result' = [ok |-> FALSE, message |-> <<"Missing samples">>]]_vars

\* C6 witness: such a run has returned, after an earlier run left its
\* command in command.json.
C6_Witness ==
  /\ Beat
  /\ NoAudio("claps")
  /\ runs = 2
  /\ pc = "idle"
  /\ result = [ok |-> FALSE, message |-> <<"Missing samples">>]
  /\ cmd_file # Missing
  /\ log = <<>>

\* The seconds of the set_cursor commands of the run, in the order written.
RECURSIVE CursorSeconds(_)
CursorSeconds(n) ==
  IF n = 0 THEN <<>>
  ELSE IF log[n]["type"] = "set_cursor"
    THEN Append(CursorSeconds(n - 1), log[n]["seconds"])
    ELSE CursorSeconds(n - 1)

\* The insert_sample commands of the run that carry a sample of a category.
Inserted(cat) ==
  {i \in Written("insert_sample", Len(log)) : log[i]["path"][1] = cat}

\* A run add_basic_beat(tempo 120, track 0, 1 bar) has returned ok: true.
BeatDone120 ==
  /\ Beat
  /\ pc = "idle"
  /\ result.ok = TRUE
  /\ result.message = <<"Added", 1, 120, 0>>

\* C7 as stated: the set_cursor seconds are 0.0, 1.0, 0.0, 0.25, 0.5, 0.75
\* (in quarters of a second).
C7_Original == BeatDone120 => CursorSeconds(Len(log)) = <<0, 4, 0, 1, 2, 3>>

\* C7 amended: 6 hits are produced (1 kick, 1 clap, 4 hats) and the
\* set_cursor seconds are 0.0, 1.0, 0.0, 0.5, 1.0, 1.5 (in quarters of a
\* second).
C7_BeatSeconds120 ==
  BeatDone120 =>
    /\ result.hits = 6
    /\ Cardinality(Written("set_cursor", Len(log))) = 6
    /\ Cardinality(Inserted("kicks")) = 1
    /\ Cardinality(Inserted("claps")) = 1
    /\ Cardinality(Inserted("hats")) = 4
    /\ CursorSeconds(Len(log)) = <<0, 4, 0, 2, 4, 6>>

\* C7 witness: the run has returned ok: true with its 13 commands written.
C7_Witness == BeatDone120 /\ Len(log) = 13 /\ Len(rets) = 13

\* The type of the n-th command of an add_basic_beat run.
StepType(n) ==
  IF n = 1 THEN "set_tempo"
  ELSE IF n % 2 = 0 THEN "set_cursor" ELSE "insert_sample"

\* C8: the commands of an add_basic_beat run are a prefix of set_tempo,
\* set_cursor(hit 1), insert_sample(hit 1), set_cursor(hit 2), ...; a
\* command is written only after the dispatch of the one before it has
\* returned ok, and an insert_sample carries the sample of the hit whose
\* set_cursor came before it.
C8_SequentialPrefix ==
  Beat =>
    /\ \A n \in 1..Len(log) : log[n]["type"] = StepType(n)
    /\ \A n \in 2..Len(log) :
         /\ n - 1 <= Len(rets)
         /\ rets[n - 1].id = log[n - 1]["id"]
         /\ RetOk(n - 1)
         /\ log[n]["id"] > log[n - 1]["id"]
    /\ (Len(log) >= 2 /\ pc # "idle") =>
         \A n \in 2..Len(log) :
           LET hit == call.hits[n \div 2] IN
             IF n % 2 = 0
             THEN log[n]["seconds"] * call.bpm = 60 * SecScale * hit.beat
             ELSE log[n]["path"] = hit.path /\ log[n]["track"] = call.track

\* C8 witness: the insert_sample of the second hit is being awaited.
C8_Witness ==
  /\ Beat
  /\ pc = "wait"
  /\ Len(log) = 5
  /\ log[5]["type"] = "insert_sample"
  /\ Len(rets) = 4

\* The step a failed command is reported as.
StepName(type) ==
  IF type = "set_cursor" THEN "Failed set_cursor" ELSE "Failed insert_sample"

\* C9: in the hit loop the first acknowledgment that is not ok is that of
\* the last command the run writes: nothing is written after it, and the
\* run returns ok: false with the failed step and the acknowledgment's
\* message.
C9_FirstFailureEndsRun ==
  Beat =>
    \A i \in 2..Len(rets) :
      ~RetOk(i) =>
        /\ i = Len(rets)
        /\ i = Len(log)
        /\ pc \in {"return", "idle"}
        /\ cmd_file = Json(log[i])
        /\ pc = "idle" =>
             result = [ok |-> FALSE,
                       message |-> <<StepName(log[i]["type"]),
                                     rets[i].ack["message"]>>]

\* C9 witness: the insert_sample of the first hit timed out and the run
\* has returned.
C9_Witness ==
  /\ Beat
  /\ pc = "idle"
  /\ Len(rets) = 3
  /\ rets[3].how = "timeout"
  /\ result.message = <<"Failed insert_sample", "ack timeout">>

\* C10: at most one command is outstanding: every command but the last
\* written has returned from dispatch, the last one is outstanding only
\* while the bridge waits for its id, and a run starts and a command is
\* written only with none outstanding.
C10_OneOutstanding ==
  /\ Len(rets) <= Len(log)
  /\ Len(log) <= Len(rets) + 1
  /\ \A i \in 1..Len(rets) : rets[i].id = log[i]["id"]
  /\ Len(log) = Len(rets) + 1 <=> Waiting
  /\ Waiting => cmd_id = log[Len(log)]["id"] /\ cmd_id = next_uuid - 1
  /\ \A i \in 1..Len(log) : log[i]["id"] < next_uuid

\* C10 witness: a second invocation waits for its command after the
\* dispatch of the first invocation has timed out.
C10_Witness ==
  /\ runs = 2
  /\ pc = "wait"
  /\ ret.how = "timeout"
  /\ Len(log) = 1
  /\ cmd_id = 2

\* C11: every invocation of run ends by returning a result mapping that has
\* an ok field, whatever the input and the receiver do; the program is
\* never stopped by an error nothing handles.
C11_AlwaysStructuredResult ==
  /\ pc # "raised"
  /\ (pc = "idle" /\ runs > 0) => "ok" \in DOMAIN result

\* C12: a run whose intent name has no handler returns ok false with the
\* "unknown tool" message naming the intent, writes neither command.json nor
\* ack.json, dispatches nothing and does not fail; the runner is idle after
\* it, and while runs are left every handled intent can be started.
C12_UnknownToolStep ==
  (runs' = runs + 1 /\ tool' \notin Handlers) =>
    /\ pc' = "idle"
    /\ result' = [ok |-> FALSE, message |-> <<"Unknown tool", tool'>>]
    /\ cmd_file' = cmd_file
    /\ ack_file' = ack_file
    /\ next_uuid' = next_uuid
    /\ log' = <<>>

C12_UsableAfterUnknown ==
  (tool \in OtherTools /\ runs < MaxRuns /\ next_uuid <= MaxCmds) =>
    /\ pc = "idle"
    /\ ENABLED RunTrack
    /\ ENABLED RunListSamples
    /\ ENABLED RunUnknown

C12_UnknownToolHarmless ==
  /\ [][C12_UnknownToolStep]_vars
  /\ []C12_UsableAfterUnknown

\* an unknown intent was run second, after a run that left a command and
\* an acknowledgment in the slots
C12_Witness ==
  /\ tool \in OtherTools
  /\ runs = 2
  /\ pc = "idle"
  /\ result = UnknownTool(tool)
  /\ cmd_file # Missing
  /\ ack_file.kind = "json"
  /\ ack_file.obj # EmptyMap

\* ack.json gives no acknowledgment: the file is missing, blank, holds a
\* partial write or holds {}.
NothingToRead ==
  \/ ack_file.kind \in {"missing", "blank", "malformed"}
  \/ ack_file = Json(EmptyMap)

\* C13: a poll that finds ack.json missing, empty or malformed takes it as
\* "no acknowledgment yet": it returns nothing, fails nothing and leaves
\* the file alone, and goes to sleep; the sleep leads back to the next poll
\* of the same command; a poll within the window that finds the matching
\* acknowledgment takes it, whatever earlier polls found.
C13_PollStep ==
  /\ (pc = "wait" /\ pc' # "wait" /\ LoopCond(waited) /\ NothingToRead) =>
       /\ pc' = "sleep"
       /\ ack_file' = ack_file
       /\ <<cmd_id, waited, rets, result, log>>' =
            <<cmd_id, waited, rets, result, log>>
  /\ (pc = "sleep" /\ pc' # "sleep") =>
       /\ pc' = "wait"
       /\ waited' = waited + poll_s
       /\ <<cmd_id, ack_file, rets, result, log>>' =
            <<cmd_id, ack_file, rets, result, log>>
  /\ (pc = "wait" /\ pc' # "wait" /\ LoopCond(waited)
        /\ HoldsAckOf(ack_file, cmd_id)) =>
       /\ pc' = "clear"
       /\ ack' = ack_file.obj

C13_UnreadableIsNoAckYet == [][C13_PollStep]_vars

\* The first command of a start with a blank ack.json is matched by a poll
\* after the first one: the first poll found the file blank or malformed.
C13_Witness ==
  /\ sounds = NoClapsSounds
  /\ cmd_id = 1
  /\ pc = "clear"
  /\ waited > 0
  /\ HoldsAckOf(ack_file, cmd_id)

\* The audio files of one category whose lowered name contains q, as sample
\* dicts in the order of the folder's entries.
MatchesIn(dir, cat, q) ==
  IF cat \notin DOMAIN dir THEN <<>>
  ELSE LET hit(e) == /\ e.is_file
                     /\ LowerTok(Suffix(e.name)) \in AUDIO_EXTS
                     /\ \E i \in 0..Len(e.name), j \in 0..Len(e.name) :
                          SubSeq(Lower(e.name), i + 1, j) = q
           es == SelectSeq(dir[cat].entries, hit)
       IN [i \in 1..Len(es) |-> Sample(cat, es[i].name)]

\* The matching samples of a lookup in discovery order: the categories of
\* "all" in their fixed order.
Matching(dir, category, q) ==
  IF category = "all"
  THEN MatchesIn(dir, "kicks", q) \o MatchesIn(dir, "claps", q)
         \o MatchesIn(dir, "hats", q) \o MatchesIn(dir, "misc", q)
  ELSE MatchesIn(dir, category, q)

Looked == pc = "idle" /\ call.tool = "list_samples"

\* C14: a lookup with a limit of 0 or more returns at most limit samples,
\* and they are the first ones of the matching samples in discovery order.
C14_AtMostLimit ==
  Looked =>
    LET m == Matching(sounds, call.category, Strip(Lower(call.query)))
        n == Len(result.samples)
    IN /\ n <= call.limit
       /\ n <= Len(m)
       /\ result.samples = SubSeq(m, 1, n)
       /\ result.count = n

\* What _list_samples returns when nothing was found.
NothingFound == [ok |-> TRUE, count |-> 0, samples |-> <<>>]

\* The statement of C15 read by the letter: a non-empty query that, cases
\* ignored, is a substring of no display name of the searched categories
\* gives the empty result.
C15_Original ==
  (/\ Looked
   /\ call.query # <<>>
   /\ Matching(sounds, call.category, Lower(call.query)) = <<>>) =>
    result = NothingFound

\* C15: a lookup whose query, lowered and stripped of surrounding blanks, is
\* non-empty and a substring of no lowered display name of the searched
\* categories returns ok true with count 0 and no samples, also when a
\* searched folder does not exist, and writes no command.
C15_NoMatchIsEmpty ==
  (/\ Looked
   /\ Strip(Lower(call.query)) # <<>>
   /\ Matching(sounds, call.category, Strip(Lower(call.query))) = <<>>) =>
    /\ result = NothingFound
    /\ log = <<>>
    /\ rets = <<>>

\* "ik" is in no name; the lookup over all categories, misc missing, came
\* after a run that had written a command.
C15_Witness ==
  /\ Looked
  /\ call.query = <<"i", "k">>
  /\ call.category = "all"
  /\ call.limit >= 1
  /\ ~sounds.misc.exists
  /\ result = NothingFound
  /\ cmd_file # Missing

\* A run of add_basic_beat has returned ok: true.
BeatOk == Beat /\ pc = "idle" /\ "ok" \in DOMAIN result /\ result.ok = TRUE

\* The kind of hit a sample category is used for.
Role(cat) ==
  CASE cat = "kicks" -> "kick" [] cat = "claps" -> "clap" [] OTHER -> "hat"

\* C16: when add_basic_beat returns ok: true, every command of the run was
\* written once (its own id) and its dispatch returned the receiver's
\* acknowledgment with ok true: one set_tempo, and a set_cursor and an
\* insert_sample for each hit; the reported hit count is the number of
\* insert_sample commands, 6 for each bar; the reported names are those of
\* the samples whose paths the insert_sample commands carried.
C16_OkMeansAllAcked ==
  BeatOk =>
    LET n == Len(log)
        bars == result.message[2]
    IN /\ Len(rets) = n
       /\ \A i \in 1..n :
            /\ rets[i].id = log[i]["id"]
            /\ rets[i].how = "match"
            /\ RetOk(i)
       /\ \A i, j \in 1..n : i # j => log[i]["id"] # log[j]["id"]
       /\ Written("set_tempo", n) = {1}
       /\ Cardinality(Written("set_cursor", n)) = result.hits
       /\ Cardinality(Written("insert_sample", n)) = result.hits
       /\ result.hits = 6 * (IF bars > 0 THEN bars ELSE 0)
       /\ \A i \in Written("insert_sample", n) :
            LET path == log[i]["path"]
            IN path = <<path[1]>> \o result.used[Role(path[1])]

\* A beat of MaxBars bars returned ok: true, its kick found by the query.
C16_Witness ==
  /\ BeatOk
  /\ result.hits = 6 * MaxBars
  /\ result.used.kick = <<"k", "k", ".wav">>
  /\ Cardinality(Inserted("kicks")) = MaxBars

SimpleTools == {"insert_track", "remove_track", "set_tempo"}

C17_ReturnStep ==
  /\ (pc = "wait" /\ pc' = "clear") => ack' = ack_file.obj
  /\ (pc = "clear" /\ pc' = "return") =>
       /\ ack' = ack
       /\ rets'[Len(rets')].ack = ack
  /\ (pc = "wait" /\ pc' = "return") => ack' = TimeoutAck(cmd_id)
  /\ (pc = "return" /\ pc' = "idle" /\ tool \in SimpleTools) => result' = ack

C17_ReturnedValue ==
  /\ pc = "clear" => ack \in Acks(cmd_id)
  /\ pc = "return" => ack \in Acks(cmd_id) \cup {TimeoutAck(cmd_id)}
  /\ (pc = "return" /\ ack \in Acks(cmd_id)) => ret.how = "match"

\* C17: dispatch returns the acknowledgment a poll read exactly as the
\* receiver wrote it, with its id, ok, message and further fields, also when
\* its ok is false; the one value it makes up itself is the timeout
\* acknowledgment; insert_track, remove_track and set_tempo pass the value
\* on as their result.
C17_AckReturnedVerbatim == [][C17_ReturnStep]_vars /\ []C17_ReturnedValue

\* The receiver's failure, with its detail field, is the result of
\* insert_track.
C17_Witness ==
  /\ pc = "idle"
  /\ tool = "insert_track"
  /\ result \in Acks(rets[1].id)
  /\ result.ok = FALSE
  /\ result.detail = "no track"

\* The beat offset and the kind of the k-th hit of the pattern: in bar b the
\* kick on 4b, the clap on 4b + 2, then the hats on 4b, 4b + 1, 4b + 2, 4b + 3.
PlanBeat(k) == 4 * ((k - 1) \div 6) + <<0, 2, 0, 1, 2, 3>>[((k - 1) % 6) + 1]
PlanKind(k) ==
  <<"kick", "clap", "hat", "hat", "hat", "hat">>[((k - 1) % 6) + 1]
PlanCategory(k) ==
  <<"kicks", "claps", "hats", "hats", "hats", "hats">>[((k - 1) % 6) + 1]

\* The hit list of the running add_basic_beat has been built.
Planned ==
  /\ call.tool = "add_basic_beat"
  /\ call.stage \in {"cursor", "insert"} \/ pc = "raised"

\* C18: for a bar count n the plan is the 6n hits of the pattern, bar after
\* bar, each bar in the order kick, clap, hats (not sorted by time), and
\* empty for n of 0 or less; the hits are executed in that order: the
\* k-th set_cursor carries (60 / tempo) * offset of the k-th hit, in quarter
\* seconds, and the k-th insert_sample a sample of its kind.
C18_PlanInPatternOrder ==
  /\ Planned =>
       /\ Len(call.hits) = 6 * call.bars
       /\ \A k \in 1..Len(call.hits) :
            /\ call.hits[k].beat = PlanBeat(k)
            /\ call.hits[k].kind = PlanKind(k)
            /\ call.hits[k].path[1] = PlanCategory(k)
  /\ Beat =>
       \A i \in 2..Len(log) :
         IF i % 2 = 0
         THEN /\ log[i]["type"] = "set_cursor"
              /\ log[i]["seconds"] * log[1]["bpm"] =
                   60 * SecScale * PlanBeat(i \div 2)
         ELSE /\ log[i]["type"] = "insert_sample"
              /\ log[i]["path"][1] = PlanCategory(i \div 2)
  /\ BeatOk =>
       LET bars == result.message[2]
       IN /\ result.hits = (IF bars > 0 THEN 6 * bars ELSE 0)
          /\ Len(log) = 1 + 2 * result.hits

\* A beat of MaxBars + 1 bars at tempo 80 was inserted whole.
C18_Witness ==
  /\ BeatOk
  /\ result.message[2] = MaxBars + 1
  /\ result.message[3] = 80
  /\ Len(log) = 1 + 12 * (MaxBars + 1)
  /\ log[Len(log) - 1]["seconds"] = 3 * (4 * MaxBars + 3)

\* A step of the program, not of the receiver.
ProgramStep == bridge_vars' # bridge_vars

C19_SlotStep ==
  ProgramStep =>
    /\ IF pc = "dispatch"
       THEN /\ Len(log') = Len(log) + 1
            /\ cmd_file' = Json(log'[Len(log')])
            /\ cmd_file' # cmd_file
            /\ pc' = "wait"
       ELSE cmd_file' = cmd_file
    /\ IF pc = "clear"
       THEN /\ HoldsAckOf(ack_file, cmd_id)
            /\ ack_file' = Json(EmptyMap)
            /\ pc' = "return"
       ELSE ack_file' = ack_file

C19_OneWritePerDispatch ==
  Len(log) = Len(rets) + (IF Waiting THEN 1 ELSE 0)

\* C19: the program writes command.json once in each dispatch, before it
\* waits, and nowhere else; it writes ack.json only to reset it to {} right
\* after a poll read the matching acknowledgment; a poll that read
\* something else, the sleep and the timeout leave ack.json as it is, so
\* that only the receiver replaces a stale acknowledgment.
C19_SlotWrites == [][C19_SlotStep]_vars /\ []C19_OneWritePerDispatch

\* The run has returned after a timeout and ack.json holds an
\* acknowledgment: that of the command that timed out, written too late.
C19_Witness ==
  /\ pc = "idle"
  /\ rets # <<>>
  /\ rets[Len(rets)].how = "timeout"
  /\ HoldsAckOf(ack_file, rets[Len(rets)].id)
  /\ cmd_file = Json(log[Len(log)])

\* The steps of the program in a run.
ProgramNext ==
  \/ DispatchWrite
  \/ WaitPoll
  \/ WaitClear
  \/ WaitSleep
  \/ WaitTimeout
  \/ ReturnSimple
  \/ ReturnTempo
  \/ ReturnCursor
  \/ ReturnInsert

\* C20: a run of add_basic_beat ends with a result whatever the receiver
\* does: it writes at most 1 + 12 * bars commands, a wait never lasts beyond
\* the timeout, a run that has not returned can take its next step (it is
\* never stopped short of a result), and a dispatch that timed out is the
\* last one of the run.
C20_RunEndsWithResult ==
  Beat =>
    /\ pc # "idle" => Len(log) <= Commands(call.bars)
    /\ Waiting => waited < timeout_s + poll_s
    /\ pc # "idle" => ENABLED ProgramNext
    /\ (pc = "idle" /\ runs > 0) => "ok" \in DOMAIN result
    /\ \A i \in 1..Len(rets) : rets[i].how = "timeout" => i = Len(log)

====
